---- MODULE Spec2Model ----
(***************************************************************************)
(* Terms of the RDF data model (src/src/term/mod.rs) and the Namespace     *)
(* helper (src/api/src/ns.rs).                                             *)
(*                                                                         *)
(* A string is a sequence of characters over Alphabet.  A Term<T> is a     *)
(* record carrying its variant, the ownership strategy T of its leaves     *)
(* (strat) and the leaf strings.  Option<T> is a sequence of length 0      *)
(* (None) or 1 (Some).  Result<_, Err> is [ok |-> TRUE, val |-> _] or      *)
(* [ok |-> FALSE, err |-> [kind |-> _, msg |-> _]].                        *)
(***************************************************************************)
EXTENDS Integers, Sequences, FiniteSets, TLC

VARIABLES x, y, cmp, dst, log, ns1, ns2, got1, got2

vars == <<x, y, cmp, dst, log, ns1, ns2, got1, got2>>

termVars == <<x, y, cmp>>
copyVars == <<dst, log>>
nsVars == <<ns1, ns2, got1, got2>>

----------------------------------------------------------------------------
(* Bounds and input domains *)

\* longest leaf string handed to a constructor
MaxLen == 1

\* a letter, a digit, the scheme delimiter, and a character no IRI may hold
Alphabet == {"a", "1", ":", " "}

Str(n) == UNION { [1..k -> Alphabet] : k \in 0..n }

Leaf == Str(MaxLen)

\* whole IRIs and names: long enough to be the concatenation of two leaves
Whole == Str(2 * MaxLen)

Strategies == {"Ref", "Box", "Rc", "Arc"}

None == << >>

Some(s) == << s >>

Ok(v) == [ok |-> TRUE, val |-> v]

Fail(kind, msg) == [ok |-> FALSE, err |-> [kind |-> kind, msg |-> msg]]

Errs == {"InvalidDatatype", "InvalidIri", "InvalidLanguageTag",
         "InvalidVariableName", "InvalidPrefix", "Other"}

----------------------------------------------------------------------------
(* Grammars *)

IsLetter(c) == c = "a"

IsDigit(c) == c = "1"

Colons(s) == { i \in 1..Len(s) : s[i] = ":" }

FirstColon(s) == CHOOSE i \in Colons(s) : \A j \in Colons(s) : i <= j

\* RFC 3987 IRI-reference over Alphabet: no space; a ":" in the first
\* segment must end a scheme (ALPHA *(ALPHA / DIGIT)); after the scheme
\* ":" the rest is a rootless path, where ":" is an ordinary character.
is_valid_iri_ref(s) ==
    /\ \A i \in 1..Len(s) : s[i] # " "
    /\ Colons(s) # {} =>
         /\ FirstColon(s) > 1
         /\ IsLetter(s[1])
         /\ \A i \in 2..(FirstColon(s) - 1) : IsLetter(s[i]) \/ IsDigit(s[i])

\* an IRI reference with a scheme
is_absolute_iri(s) == Colons(s) # {}

\* LangTag::from_str over Alphabet: a non-empty run of letters
LangTagError == << "L", "a", "n", "g" >>

LangTag_from_str(tag) ==
    IF Len(tag) > 0 /\ \A i \in 1..Len(tag) : IsLetter(tag[i])
    THEN Ok(tag)
    ELSE Fail("InvalidLanguageTag", LangTagError)

\* a first class without 0-9, as the N3 barename grammar has it
VarNameStart_NoDigit(c) == IsLetter(c)

\* first character class of N3_VARIABLE_NAME: [A-Za-z...._0-9]
VarNameStart(c) == IsLetter(c) \/ IsDigit(c)

\* second character class of N3_VARIABLE_NAME: [A-Za-z...._0-9\u{00B7}...]
VarNameChar(c) == IsLetter(c) \/ IsDigit(c)

\* N3_VARIABLE_NAME.is_match(name): ^ [class1] [class2]* $
N3_VARIABLE_NAME(name) ==
    /\ Len(name) >= 1
    /\ VarNameStart(name[1])
    /\ \A i \in 2..Len(name) : VarNameChar(name[i])

----------------------------------------------------------------------------
(* IriTerm<T>, BNodeId<T>, LiteralKind<T> *)

\* the full IRI: namespace followed by the suffix, if any
IriTerm_value(iri) == iri.ns \o (IF iri.suffix = None THEN << >> ELSE iri.suffix[1])

IriTerm_new(ns, suffix) ==
    LET val == ns \o (IF suffix = None THEN << >> ELSE suffix[1]) IN
    IF is_valid_iri_ref(val)
    THEN Ok([ns |-> ns, suffix |-> suffix, absolute |-> is_absolute_iri(val)])
    ELSE Fail("InvalidIri", val)

\* abs is an Option<bool>: the caller's word for the flag, else it is computed
IriTerm_new_trusted(ns, suffix, abs) ==
    LET val == ns \o (IF suffix = None THEN << >> ELSE suffix[1]) IN
    [ns |-> ns, suffix |-> suffix,
     absolute |-> IF abs = None THEN is_absolute_iri(val) ELSE abs[1]]

IriTerm_eq(iri1, iri2) == IriTerm_value(iri1) = IriTerm_value(iri2)

\* <str as Hash>::hash : the bytes, then 0xff
str_hash(s) == s \o << "0xff" >>

\* the bytes of the namespace, the bytes of the suffix, then 0xff
IriTerm_hash(iri) ==
    iri.ns \o (IF iri.suffix = None THEN << >> ELSE iri.suffix[1]) \o << "0xff" >>

BNodeId_new(id) == id

BNodeId_eq(id1, id2) == id1 = id2

BNodeId_hash(id) == str_hash(id)

Lang(tag) == [k |-> "Lang", tag |-> tag]

Datatype(iri) == [k |-> "Datatype", iri |-> iri]

LiteralKind_eq(kind1, kind2) ==
    CASE kind1.k = "Lang" /\ kind2.k = "Lang" -> kind1.tag = kind2.tag
      [] kind1.k = "Datatype" /\ kind2.k = "Datatype" -> IriTerm_eq(kind1.iri, kind2.iri)
      [] OTHER -> FALSE

LiteralKind_hash(kind) ==
    IF kind.k = "Lang"
    THEN << "k0" >> \o str_hash(kind.tag)
    ELSE << "k1" >> \o IriTerm_hash(kind.iri)

----------------------------------------------------------------------------
(* Term<T> *)

Iri(T, iri) == [variant |-> "Iri", strat |-> T, iri |-> iri]

BNode(T, id) == [variant |-> "BNode", strat |-> T, id |-> id]

Literal(T, value, kind) == [variant |-> "Literal", strat |-> T, value |-> value, kind |-> kind]

Variable(T, name) == [variant |-> "Variable", strat |-> T, name |-> name]

\* the Iri arm renders the namespace part alone
Term_value_NsOnly(t) ==
    CASE t.variant = "Iri" -> t.iri.ns
      [] t.variant = "BNode" -> t.id
      [] t.variant = "Literal" -> t.value
      [] t.variant = "Variable" -> t.name

Term_value(t) ==
    CASE t.variant = "Iri" -> IriTerm_value(t.iri)
      [] t.variant = "BNode" -> t.id
      [] t.variant = "Literal" -> t.value
      [] t.variant = "Variable" -> t.name

\* the ? operator: an error of the inner call is the error of the caller
new_iri(T, iri) ==
    LET r == IriTerm_new(iri, None) IN
    IF r.ok THEN Ok(Iri(T, r.val)) ELSE r

\* the two parts validated one by one instead of their concatenation
new_iri2_PartsChecked(T, ns, suffix) ==
    IF is_valid_iri_ref(ns) /\ is_valid_iri_ref(suffix)
    THEN Ok(Iri(T, [ns |-> ns, suffix |-> Some(suffix),
                    absolute |-> is_absolute_iri(ns \o suffix)]))
    ELSE Fail("InvalidIri", ns \o suffix)

new_iri2(T, ns, suffix) ==
    LET r == IriTerm_new(ns, Some(suffix)) IN
    IF r.ok THEN Ok(Iri(T, r.val)) ELSE r

new_bnode(T, id) == Ok(BNode(T, BNodeId_new(id)))

new_literal_lang(T, txt, lang) ==
    LET r == LangTag_from_str(lang) IN
    IF r.ok THEN Ok(Literal(T, txt, Lang(lang))) ELSE r

\* format!("{:?}", dt)
Term_debug(t) == << t.variant, "(" >> \o Term_value(t) \o << ")" >>

\* a blank node is let through as a datatype
new_literal_dt_BNodeAllowed(T, txt, dt) ==
    CASE dt.variant = "Iri" -> Ok(Literal(T, txt, Datatype(dt.iri)))
      [] dt.variant = "BNode" ->
           Ok(Literal(T, txt, Datatype([ns |-> << " " >> \o dt.id, suffix |-> None,
                                        absolute |-> FALSE])))
      [] OTHER -> Fail("InvalidDatatype", Term_debug(dt))

new_literal_dt(T, txt, dt) ==
    IF dt.variant = "Iri"
    THEN Ok(Literal(T, txt, Datatype(dt.iri)))
    ELSE Fail("InvalidDatatype", Term_debug(dt))

new_variable(T, name) ==
    IF N3_VARIABLE_NAME(name)
    THEN Ok(Variable(T, name))
    ELSE Fail("InvalidVariableName", name)

trusted_iri(T, iri, abs) == Iri(T, IriTerm_new_trusted(iri, None, abs))

trusted_iri2(T, ns, suffix, abs) == Iri(T, IriTerm_new_trusted(ns, Some(suffix), abs))

trusted_bnode(T, id) == BNode(T, BNodeId_new(id))

trusted_literal_lang(T, txt, lang) == Literal(T, txt, Lang(lang))

\* the last arm compares the lexical values instead of answering false
Term_eq_AcrossVariants(a, b) ==
    CASE a.variant = "Iri" /\ b.variant = "Iri" -> IriTerm_eq(a.iri, b.iri)
      [] a.variant = "BNode" /\ b.variant = "BNode" -> BNodeId_eq(a.id, b.id)
      [] a.variant = "Literal" /\ b.variant = "Literal" ->
            a.value = b.value /\ LiteralKind_eq(a.kind, b.kind)
      [] a.variant = "Variable" /\ b.variant = "Variable" -> a.name = b.name
      [] OTHER -> Term_value(a) = Term_value(b)

Term_eq(a, b) ==
    CASE a.variant = "Iri" /\ b.variant = "Iri" -> IriTerm_eq(a.iri, b.iri)
      [] a.variant = "BNode" /\ b.variant = "BNode" -> BNodeId_eq(a.id, b.id)
      [] a.variant = "Literal" /\ b.variant = "Literal" ->
            a.value = b.value /\ LiteralKind_eq(a.kind, b.kind)
      [] a.variant = "Variable" /\ b.variant = "Variable" -> a.name = b.name
      [] OTHER -> FALSE

\* the Iri payload hashed field by field, as a derived Hash of the raw
\* representation would: ns, the Option's discriminant, the suffix
Term_hash_RawFields(t) ==
    CASE t.variant = "Iri" ->
           << "d0" >> \o str_hash(t.iri.ns) \o
           (IF t.iri.suffix = None THEN << "o0" >> ELSE << "o1" >> \o str_hash(t.iri.suffix[1]))
      [] t.variant = "BNode" -> << "d1" >> \o BNodeId_hash(t.id)
      [] t.variant = "Literal" -> << "d2" >> \o str_hash(t.value) \o LiteralKind_hash(t.kind)
      [] t.variant = "Variable" -> << "d3" >> \o str_hash(t.name)

\* derive(Hash): the discriminant of the variant, then the fields in order
Term_hash(t) ==
    CASE t.variant = "Iri" -> << "d0" >> \o IriTerm_hash(t.iri)
      [] t.variant = "BNode" -> << "d1" >> \o BNodeId_hash(t.id)
      [] t.variant = "Literal" -> << "d2" >> \o str_hash(t.value) \o LiteralKind_hash(t.kind)
      [] t.variant = "Variable" -> << "d3" >> \o str_hash(t.name)

\* trusted_literal_dt panics when dt is not an Iri: no value is returned
Panic(msg) == [ok |-> FALSE, panic |-> msg]

trusted_literal_dt(T, txt, dt) ==
    IF dt.variant = "Iri"
    THEN Ok(Literal(T, txt, Datatype(dt.iri)))
    ELSE Panic(Term_debug(dt))

\* The factories handed to copy_with: T::from, which keeps the characters,
\* and a closure that drops the spaces (a factory need not be the identity).
Factories == {"from", "trim"}

IsNotSpace(c) == c # " "

Apply(f, s) == IF f = "from" THEN s ELSE SelectSeq(s, IsNotSpace)

\* copy_with returns the new value; calls lists the arguments the FnMut
\* factory was called with, in call order.
IriTerm_copy_with(iri, f) ==
    [val |-> [ns |-> Apply(f, iri.ns),
              suffix |-> IF iri.suffix = None THEN None ELSE Some(Apply(f, iri.suffix[1])),
              absolute |-> iri.absolute],
     calls |-> << iri.ns >> \o iri.suffix]

BNodeId_copy_with(id, f) == [val |-> Apply(f, id), calls |-> << id >>]

LiteralKind_copy_with(kind, f) ==
    IF kind.k = "Lang"
    THEN [val |-> Lang(Apply(f, kind.tag)), calls |-> << kind.tag >>]
    ELSE LET r == IriTerm_copy_with(kind.iri, f) IN
         [val |-> Datatype(r.val), calls |-> r.calls]

\* the kind of a literal is copied before its lexical value
copy_with_KindFirst(T, other, f) ==
    CASE other.variant = "Iri" ->
           LET r == IriTerm_copy_with(other.iri, f) IN
           [val |-> Iri(T, r.val), calls |-> r.calls]
      [] other.variant = "BNode" ->
           LET r == BNodeId_copy_with(other.id, f) IN
           [val |-> BNode(T, r.val), calls |-> r.calls]
      [] other.variant = "Literal" ->
           LET r == LiteralKind_copy_with(other.kind, f) IN
           [val |-> Literal(T, Apply(f, other.value), r.val),
            calls |-> r.calls \o << other.value >>]
      [] other.variant = "Variable" ->
           [val |-> Variable(T, Apply(f, other.name)), calls |-> << other.name >>]

copy_with(T, other, f) ==
    CASE other.variant = "Iri" ->
           LET r == IriTerm_copy_with(other.iri, f) IN
           [val |-> Iri(T, r.val), calls |-> r.calls]
      [] other.variant = "BNode" ->
           LET r == BNodeId_copy_with(other.id, f) IN
           [val |-> BNode(T, r.val), calls |-> r.calls]
      [] other.variant = "Literal" ->
           LET r == LiteralKind_copy_with(other.kind, f) IN
           [val |-> Literal(T, Apply(f, other.value), r.val),
            calls |-> << other.value >> \o r.calls]
      [] other.variant = "Variable" ->
           [val |-> Variable(T, Apply(f, other.name)), calls |-> << other.name >>]

copy(T, other) == copy_with(T, other, "from")

----------------------------------------------------------------------------
(* Two callers build a term each with the validated constructors, then the *)
(* two terms are compared, hashed and rendered.  A slot records the call   *)
(* (op, the strategy T of the result, the arguments) and what it returned. *)

Empty == [op |-> "none"]

Slots == {"x", "y"}

Get(s) == IF s = "x" THEN x ELSE y

Put(s, v) == IF s = "x" THEN x' = v /\ y' = y ELSE y' = v /\ x' = x

\* x is built first; y is built once x holds a term
CanBuild(s) ==
    /\ Get(s).op = "none"
    /\ s = "y" => (x.op # "none" /\ x.out.ok)

InitTerms == x = Empty /\ y = Empty /\ cmp = Empty

InitCopy == dst = Empty /\ log = << >>

InitNs == ns1 = Empty /\ ns2 = Empty /\ got1 = Empty /\ got2 = Empty

Init == InitTerms /\ InitCopy /\ InitNs

NewIri(s) ==
    /\ CanBuild(s)
    /\ \E T \in Strategies, iri \in Whole :
         Put(s, [op |-> "new_iri", T |-> T, iri |-> iri, out |-> new_iri(T, iri)])
    /\ UNCHANGED <<cmp, copyVars, nsVars>>

NewIri2(s) ==
    /\ CanBuild(s)
    /\ \E T \in Strategies, ns \in Leaf, suffix \in Leaf :
         Put(s, [op |-> "new_iri2", T |-> T, ns |-> ns, suffix |-> suffix,
                 out |-> new_iri2(T, ns, suffix)])
    /\ UNCHANGED <<cmp, copyVars, nsVars>>

NewBNode(s) ==
    /\ CanBuild(s)
    /\ \E T \in Strategies, id \in Leaf :
         Put(s, [op |-> "new_bnode", T |-> T, id |-> id, out |-> new_bnode(T, id)])
    /\ UNCHANGED <<cmp, copyVars, nsVars>>

NewLiteralLang(s) ==
    /\ CanBuild(s)
    /\ \E T \in Strategies, txt \in Leaf, lang \in Leaf :
         Put(s, [op |-> "new_literal_lang", T |-> T, txt |-> txt, lang |-> lang,
                 out |-> new_literal_lang(T, txt, lang)])
    /\ UNCHANGED <<cmp, copyVars, nsVars>>

\* dt is the term the slot holds, moved into the call; T is dt's strategy
NewLiteralDt(s) ==
    /\ Get(s).op \notin {"none", "new_literal_dt"}
    /\ Get(s).out.ok
    /\ s = "x" => y.op = "none"
    /\ cmp.op = "none" /\ dst.op = "none"
    /\ \E txt \in Leaf :
         LET dt == Get(s).out.val IN
         Put(s, [op |-> "new_literal_dt", T |-> dt.strat, txt |-> txt, dt |-> dt,
                 out |-> new_literal_dt(dt.strat, txt, dt)])
    /\ UNCHANGED <<cmp, copyVars, nsVars>>

NewVariable(s) ==
    /\ CanBuild(s)
    /\ \E T \in Strategies, name \in Whole :
         Put(s, [op |-> "new_variable", T |-> T, name |-> name,
                 out |-> new_variable(T, name)])
    /\ UNCHANGED <<cmp, copyVars, nsVars>>

\* x == y, y == x, the hashes and the lexical values of the two terms
Compare ==
    /\ x.op # "none" /\ x.out.ok
    /\ y.op # "none" /\ y.out.ok
    /\ cmp.op = "none"
    /\ cmp' = [op |-> "compare",
               eq_xy |-> Term_eq(x.out.val, y.out.val),
               eq_yx |-> Term_eq(y.out.val, x.out.val),
               hash_x |-> Term_hash(x.out.val),
               hash_y |-> Term_hash(y.out.val),
               value_x |-> Term_value(x.out.val),
               value_y |-> Term_value(y.out.val)]
    /\ UNCHANGED <<x, y, copyVars, nsVars>>

Next ==
    \/ \E s \in Slots : NewIri(s)
    \/ \E s \in Slots : NewIri2(s)
    \/ \E s \in Slots : NewBNode(s)
    \/ \E s \in Slots : NewLiteralLang(s)
    \/ \E s \in Slots : NewLiteralDt(s)
    \/ \E s \in Slots : NewVariable(s)
    \/ Compare

Spec == Init /\ [][Next]_vars

\* One caller: a term is built in x, then rendered and hashed.
Render ==
    /\ x.op # "none" /\ x.out.ok
    /\ cmp.op = "none"
    /\ cmp' = [op |-> "render",
               value_x |-> Term_value(x.out.val),
               hash_x |-> Term_hash(x.out.val)]
    /\ UNCHANGED <<x, y, copyVars, nsVars>>

NextOne ==
    \/ NewIri("x")
    \/ NewIri2("x")
    \/ NewBNode("x")
    \/ NewLiteralLang("x")
    \/ NewLiteralDt("x")
    \/ NewVariable("x")
    \/ Render

SpecOne == Init /\ [][NextOne]_vars

\* An IRI built from a namespace and a suffix, an IRI built from one string,
\* and their comparison.
NextSplit ==
    \/ NewIri2("x")
    \/ NewIri("y")
    \/ Compare

SpecSplit == Init /\ [][NextSplit]_vars

----------------------------------------------------------------------------
(* Properties of the constructors, of == and of the hash *)

Built(s) == Get(s).op # "none"

Compared == cmp.op = "compare"

Rendered == cmp.op = "render"

\* the concatenation a new_iri2 call validates
Concat(c) == c.ns \o c.suffix

\* x and y are new_iri2(p, q) and new_iri(p+q), in either order
SplitPair ==
    \/ x.op = "new_iri2" /\ y.op = "new_iri" /\ y.iri = Concat(x)
    \/ y.op = "new_iri2" /\ x.op = "new_iri" /\ x.iri = Concat(y)

\* C1: whenever two terms compare equal (in either order, whatever their
\* strategies and whether an IRI is split or not) their hashes are the same;
\* new_iri2(p, q) and new_iri(p+q) hash identically.
C1_EqualTermsHashEqual ==
    Compared =>
      /\ cmp.eq_xy => cmp.hash_x = cmp.hash_y
      /\ cmp.eq_yx => cmp.hash_x = cmp.hash_y
      /\ SplitPair => cmp.hash_x = cmp.hash_y

C1_Witness ==
    /\ Compared
    /\ x.op = "new_iri2" /\ y.op = "new_iri" /\ y.iri = Concat(x)
    /\ x.suffix # << >> /\ x.ns # << >>
    /\ x.T # y.T
    /\ cmp.eq_xy /\ cmp.hash_x = cmp.hash_y

KindContentEq(k1, k2) ==
    /\ k1.k = k2.k
    /\ k1.k = "Lang" => k1.tag = k2.tag
    /\ k1.k = "Datatype" => IriTerm_value(k1.iri) = IriTerm_value(k2.iri)

\* same variant, and the content of that variant equal; strat is not read
ContentEq(a, b) ==
    /\ a.variant = b.variant
    /\ a.variant = "Iri" => IriTerm_value(a.iri) = IriTerm_value(b.iri)
    /\ a.variant = "BNode" => a.id = b.id
    /\ a.variant = "Variable" => a.name = b.name
    /\ a.variant = "Literal" => a.value = b.value /\ KindContentEq(a.kind, b.kind)

\* C2: a == b exactly when a and b are the same variant with equal content
\* (full IRI; label; name; lexical value and kind), in both argument orders
\* and for every pair of strategies; terms of different variants are unequal.
C2_EqIsContentEq ==
    Compared =>
      /\ cmp.eq_xy = ContentEq(x.out.val, y.out.val)
      /\ cmp.eq_yx = ContentEq(x.out.val, y.out.val)
      /\ x.out.val.variant # y.out.val.variant => ~cmp.eq_xy /\ ~cmp.eq_yx

\* a BNode and a Variable with the same non-empty string, under different strategies
C2_Witness ==
    /\ Compared
    /\ x.out.val.variant = "BNode" /\ y.out.val.variant = "Variable"
    /\ x.out.val.id = y.out.val.name
    /\ x.out.val.strat # y.out.val.strat
    /\ ~cmp.eq_xy /\ ~cmp.eq_yx

\* C3: when p+q is a valid IRI reference, new_iri2(p, q) succeeds,
\* new_iri(p+q) succeeds, and the two terms are equal in both orders.
C3_SplitEqualsUnsplit ==
    /\ \A s \in Slots :
         /\ Get(s).op = "new_iri2" /\ is_valid_iri_ref(Concat(Get(s))) => Get(s).out.ok
         /\ Get(s).op = "new_iri" /\ is_valid_iri_ref(Get(s).iri) => Get(s).out.ok
    /\ Compared /\ SplitPair => cmp.eq_xy /\ cmp.eq_yx

\* p+q is valid although q alone is not
C3_Witness ==
    /\ Compared
    /\ x.op = "new_iri2" /\ y.op = "new_iri" /\ y.iri = Concat(x)
    /\ ~is_valid_iri_ref(x.suffix)
    /\ cmp.eq_xy /\ cmp.eq_yx

\* C5: new_iri(s) succeeds for every valid s and value() gives s back;
\* value() of new_iri2(p, q) is p+q.
C5_ValueRoundTrip ==
    /\ x.op = "new_iri" /\ is_valid_iri_ref(x.iri) => x.out.ok
    /\ Rendered =>
         /\ x.op = "new_iri" => cmp.value_x = x.iri
         /\ x.op = "new_iri2" => cmp.value_x = Concat(x)

\* an absolute IRI of the greatest length, rendered
C5_Witness ==
    /\ Rendered
    /\ x.op = "new_iri" /\ Len(x.iri) = 2 * MaxLen /\ x.out.val.iri.absolute
    /\ cmp.value_x = x.iri

\* data-model invariants 1-4 of a term
IriTermValid(iri) ==
    /\ DOMAIN iri = {"ns", "suffix", "absolute"}
    /\ is_valid_iri_ref(IriTerm_value(iri))

TermValid(t) ==
    /\ t.variant = "Iri" => IriTermValid(t.iri)
    /\ t.variant = "Literal" /\ t.kind.k = "Lang" => LangTag_from_str(t.kind.tag).ok
    /\ t.variant = "Literal" /\ t.kind.k = "Datatype" => IriTermValid(t.kind.iri)
    /\ t.variant = "Variable" => N3_VARIABLE_NAME(t.name)

\* the call succeeded exactly when valid held, and failed with this kind otherwise
Checked(c, valid, kind) ==
    /\ c.out.ok = valid
    /\ ~c.out.ok => c.out.err.kind = kind /\ DOMAIN c.out = {"ok", "err"}
    /\ c.out.ok => DOMAIN c.out = {"ok", "val"}

\* C6: each validated constructor returns a term exactly when its invariant
\* holds and otherwise its own error kind and no term; every term built by
\* validated constructors satisfies invariants 1-4.
C6_ValidatedConstructors ==
    \A s \in Slots : LET c == Get(s) IN
      /\ c.op = "new_iri" => Checked(c, is_valid_iri_ref(c.iri), "InvalidIri")
      /\ c.op = "new_iri2" => Checked(c, is_valid_iri_ref(Concat(c)), "InvalidIri")
      /\ c.op = "new_bnode" => c.out.ok
      /\ c.op = "new_literal_lang" =>
           Checked(c, LangTag_from_str(c.lang).ok, "InvalidLanguageTag")
      /\ c.op = "new_literal_dt" =>
           Checked(c, c.dt.variant = "Iri", "InvalidDatatype")
      /\ c.op = "new_variable" =>
           Checked(c, N3_VARIABLE_NAME(c.name), "InvalidVariableName")
      /\ Built(s) /\ c.out.ok => TermValid(c.out.val) /\ c.out.val.strat = c.T

\* a BNode offered as a datatype is refused
C6_Witness ==
    /\ x.op = "new_literal_dt" /\ x.dt.variant = "BNode"
    /\ ~x.out.ok /\ x.out.err.kind = "InvalidDatatype"

\* a name that starts with a digit and goes on with a letter ("1abc")
LeadingDigit(name) == Len(name) >= 2 /\ IsDigit(name[1]) /\ IsLetter(name[2])

\* C7 as claimed: new_variable refuses a name with a leading digit with
\* InvalidVariableName carrying the name, and builds no Variable.
C7_LeadingDigitRejected ==
    \A s \in Slots : LET c == Get(s) IN
      c.op = "new_variable" /\ LeadingDigit(c.name) =>
        /\ ~c.out.ok
        /\ c.out.err = [kind |-> "InvalidVariableName", msg |-> c.name]

\* C7 amended: new_variable accepts a name with a leading digit and returns
\* the Variable of that name; it fails, with InvalidVariableName carrying
\* the name, only for the empty name or a name holding a character outside
\* the classes of N3_VARIABLE_NAME.
C7_LeadingDigitAccepted ==
    \A s \in Slots : LET c == Get(s) IN
      c.op = "new_variable" =>
        /\ LeadingDigit(c.name)
           /\ (\A i \in 1..Len(c.name) : IsLetter(c.name[i]) \/ IsDigit(c.name[i])) =>
             c.out = Ok(Variable(c.T, c.name))
        /\ ~c.out.ok =>
             /\ c.out.err = [kind |-> "InvalidVariableName", msg |-> c.name]
             /\ \/ c.name = << >>
                \/ \E i \in 1..Len(c.name) : ~IsLetter(c.name[i]) /\ ~IsDigit(c.name[i])

C7_Witness ==
    /\ x.op = "new_variable" /\ LeadingDigit(x.name)
    /\ x.out.ok /\ x.out.val.variant = "Variable" /\ x.out.val.name = x.name

----------------------------------------------------------------------------
(* Rehoming: a term is built in x by a validated or by a trusted           *)
(* constructor, then copied into dst under another strategy; log is what   *)
(* the factory was called with; the copy is then compared with its source. *)

OptBool == {None, << TRUE >>, << FALSE >>}

CanTrust == x.op = "none"

TrustedIri ==
    /\ CanTrust
    /\ \E T \in Strategies, iri \in Leaf, abs \in OptBool :
         x' = [op |-> "trusted_iri", T |-> T, iri |-> iri, abs |-> abs,
               out |-> Ok(trusted_iri(T, iri, abs))]
    /\ UNCHANGED <<y, cmp, copyVars, nsVars>>

TrustedIri2 ==
    /\ CanTrust
    /\ \E T \in Strategies, ns \in Leaf, suffix \in Leaf, abs \in OptBool :
         x' = [op |-> "trusted_iri2", T |-> T, ns |-> ns, suffix |-> suffix, abs |-> abs,
               out |-> Ok(trusted_iri2(T, ns, suffix, abs))]
    /\ UNCHANGED <<y, cmp, copyVars, nsVars>>

TrustedBNode ==
    /\ CanTrust
    /\ \E T \in Strategies, id \in Leaf :
         x' = [op |-> "trusted_bnode", T |-> T, id |-> id,
               out |-> Ok(trusted_bnode(T, id))]
    /\ UNCHANGED <<y, cmp, copyVars, nsVars>>

TrustedLiteralLang ==
    /\ CanTrust
    /\ \E T \in Strategies, txt \in Leaf, lang \in Leaf :
         x' = [op |-> "trusted_literal_lang", T |-> T, txt |-> txt, lang |-> lang,
               out |-> Ok(trusted_literal_lang(T, txt, lang))]
    /\ UNCHANGED <<y, cmp, copyVars, nsVars>>

\* dt is the term x holds, moved into the call
TrustedLiteralDt ==
    /\ x.op \notin {"none", "new_literal_dt", "trusted_literal_dt"}
    /\ x.out.ok
    /\ dst.op = "none"
    /\ \E txt \in Leaf :
         LET dt == x.out.val IN
         x' = [op |-> "trusted_literal_dt", T |-> dt.strat, txt |-> txt, dt |-> dt,
               out |-> trusted_literal_dt(dt.strat, txt, dt)]
    /\ UNCHANGED <<y, cmp, copyVars, nsVars>>

CanCopy == x.op # "none" /\ x.out.ok /\ dst.op = "none"

Copy ==
    /\ CanCopy
    /\ \E T \in Strategies :
         LET r == copy(T, x.out.val) IN
         /\ dst' = [op |-> "copy", T |-> T, f |-> "from", other |-> x.out.val, out |-> r.val]
         /\ log' = r.calls
    /\ UNCHANGED <<x, y, cmp, nsVars>>

CopyWith ==
    /\ CanCopy
    /\ \E T \in Strategies, f \in Factories :
         LET r == copy_with(T, x.out.val, f) IN
         /\ dst' = [op |-> "copy_with", T |-> T, f |-> f, other |-> x.out.val, out |-> r.val]
         /\ log' = r.calls
    /\ UNCHANGED <<x, y, cmp, nsVars>>

\* x == dst, dst == x, and the hashes and values of the source and its copy
CompareCopy ==
    /\ dst.op # "none"
    /\ cmp.op = "none"
    /\ cmp' = [op |-> "compare",
               eq_xy |-> Term_eq(x.out.val, dst.out),
               eq_yx |-> Term_eq(dst.out, x.out.val),
               hash_x |-> Term_hash(x.out.val),
               hash_y |-> Term_hash(dst.out),
               value_x |-> Term_value(x.out.val),
               value_y |-> Term_value(dst.out)]
    /\ UNCHANGED <<x, y, copyVars, nsVars>>

NextCopy ==
    \/ NewIri("x")
    \/ NewIri2("x")
    \/ NewBNode("x")
    \/ NewLiteralLang("x")
    \/ NewLiteralDt("x")
    \/ NewVariable("x")
    \/ TrustedIri
    \/ TrustedIri2
    \/ TrustedBNode
    \/ TrustedLiteralLang
    \/ TrustedLiteralDt
    \/ Copy
    \/ CopyWith
    \/ CompareCopy

SpecCopy == Init /\ [][NextCopy]_vars

\* every leaf string of a term, in the order of its structure
IriLeaves(iri) == << iri.ns >> \o iri.suffix

Leaves(t) ==
    CASE t.variant = "Iri" -> IriLeaves(t.iri)
      [] t.variant = "BNode" -> << t.id >>
      [] t.variant = "Variable" -> << t.name >>
      [] t.variant = "Literal" ->
           << t.value >> \o
           (IF t.kind.k = "Lang" THEN << t.kind.tag >> ELSE IriLeaves(t.kind.iri))

\* C4: Term::copy of any term, valid or not, into any strategy returns a
\* term (never an error) of the same variant and literal kind, of the target
\* strategy, equal to the source in both orders and with the same hash; the
\* factory is called once with each leaf of the source, in order, and the
\* copy holds what it returned; the source is left as it was.
C4_CopyPreserves ==
    dst.op = "copy" =>
      LET t == dst.other
          c == dst.out
      IN /\ x.out.val = t
         /\ "variant" \in DOMAIN c /\ c.variant = t.variant
         /\ c.strat = dst.T
         /\ t.variant = "Literal" => c.kind.k = t.kind.k
         /\ log = Leaves(t)
         /\ Leaves(c) = Leaves(t)
         /\ Compared =>
              /\ cmp.eq_xy /\ cmp.eq_yx
              /\ cmp.hash_x = cmp.hash_y
              /\ cmp.value_x = cmp.value_y

\* a datatyped literal that breaks invariant 1, copied to another strategy
C4_Witness ==
    /\ dst.op = "copy" /\ Compared
    /\ x.op = "trusted_literal_dt" /\ x.out.val.kind.iri.suffix # None
    /\ ~TermValid(x.out.val)
    /\ dst.T # x.T
    /\ Len(log) = 3
    /\ cmp.eq_xy /\ cmp.hash_x = cmp.hash_y

----------------------------------------------------------------------------
(* Namespace<T>: the tuple struct Namespace(T) is [strat |-> T, iri |-> _]. *)
(* A SimpleIri<'s> borrows its namespace part: ns is a reference to the     *)
(* storage of the Namespace slot it was taken from, read through Deref.     *)

Namespace(T, iri) == [strat |-> T, iri |-> iri]

\* only the empty prefix is refused
Namespace_new_NonEmptyOnly(T, iri) ==
    IF iri # << >>
    THEN Ok(Namespace(T, iri))
    ELSE Fail("InvalidIri", iri)

Namespace_new(T, iri) ==
    IF is_valid_iri_ref(iri)
    THEN Ok(Namespace(T, iri))
    ELSE Fail("InvalidIri", iri)

Namespace_new_unchecked(T, iri) == Namespace(T, iri)

NsSlots == {"ns1", "ns2"}

NsSlot(n) == IF n = "ns1" THEN ns1 ELSE ns2

\* self.0.as_ref(): a &str into the storage of slot n
AsRef(n) == [ref |-> n]

Deref(r) == NsSlot(r.ref).out.val.iri

\* SimpleIri::new(ns, suffix): the concatenation is validated, the parts are kept
SimpleIri_new(ns, suffix) ==
    LET iri == Deref(ns) \o (IF suffix = None THEN << >> ELSE suffix[1]) IN
    IF is_valid_iri_ref(iri)
    THEN Ok([ns |-> ns, suffix |-> suffix])
    ELSE Fail("InvalidIri", iri)

SimpleIri_value(iri) ==
    Deref(iri.ns) \o (IF iri.suffix = None THEN << >> ELSE iri.suffix[1])

SimpleIri_eq(iri1, iri2) == SimpleIri_value(iri1) = SimpleIri_value(iri2)

\* the suffix is dropped
Namespace_get_NoSuffix(n, suffix) == SimpleIri_new(AsRef(n), None)

\* the suffix is validated on its own before the concatenation
Namespace_get_SuffixChecked(n, suffix) ==
    IF is_valid_iri_ref(suffix)
    THEN SimpleIri_new(AsRef(n), Some(suffix))
    ELSE Fail("InvalidIri", suffix)

\* get(&'s self, suffix: &'s str), self being the Namespace in slot n
Namespace_get(n, suffix) == SimpleIri_new(AsRef(n), Some(suffix))

\* The closures handed to map and try_map: a change of strategy that keeps
\* the characters, one that appends a space, and (try_map) one that fails.
\* A chain of maps is one map by the composed closure.
MapFns == {"into_rc", "into_box", "push_space"}

TryMapFns == {"into_rc", "push_space", "refuse"}

MapFn(f, v) ==
    CASE f = "into_rc" -> Namespace("Rc", v.iri)
      [] f = "into_box" -> Namespace("Box", v.iri)
      [] f = "push_space" -> Namespace("Box", v.iri \o << " " >>)

Namespace_map(v, f) == MapFn(f, v)

\* f(self.0)? : the closure's error is returned as it is
Namespace_try_map(v, f) ==
    IF f = "refuse" THEN Fail("Other", << >>) ELSE Ok(MapFn(f, v))

Namespace_destruct(v) == v.iri

GotSlots == {"got1", "got2"}

GotSlot(g) == IF g = "got1" THEN got1 ELSE got2

PutNs(n, v) == IF n = "ns1" THEN ns1' = v /\ ns2' = ns2 ELSE ns2' = v /\ ns1' = ns1

PutGot(g, v) == IF g = "got1" THEN got1' = v /\ got2' = got2 ELSE got2' = v /\ got1' = got1

\* slot n holds a Namespace
Holds(n) == NsSlot(n).op \notin {"none", "destruct"} /\ NsSlot(n).out.ok

\* no SimpleIri borrows from slot n
Unborrowed(n) == \A g \in GotSlots : GotSlot(g).op = "get" => GotSlot(g).of # n

\* ns1 is built first; ns2 once ns1 holds a Namespace
CanBuildNs(n) ==
    /\ NsSlot(n).op = "none"
    /\ n = "ns2" => Holds("ns1")

NsNew(n) ==
    /\ CanBuildNs(n)
    /\ \E T \in Strategies, iri \in Leaf :
         PutNs(n, [op |-> "new", T |-> T, iri |-> iri, out |-> Namespace_new(T, iri)])
    /\ UNCHANGED <<termVars, copyVars, got1, got2>>

NsNewUnchecked(n) ==
    /\ CanBuildNs(n)
    /\ \E T \in Strategies, iri \in Leaf :
         PutNs(n, [op |-> "new_unchecked", T |-> T, iri |-> iri,
                   out |-> Ok(Namespace_new_unchecked(T, iri))])
    /\ UNCHANGED <<termVars, copyVars, got1, got2>>

\* map, try_map and destruct take self by value: nothing may borrow from it
CanConsume(n) ==
    /\ Holds(n) /\ Unborrowed(n)
    /\ NsSlot(n).op \in {"new", "new_unchecked"}
    /\ n = "ns1" => ns2.op = "none"

NsMap(n) ==
    /\ CanConsume(n)
    /\ \E f \in MapFns :
         LET v == NsSlot(n).out.val IN
         PutNs(n, [op |-> "map", f |-> f, from |-> v, out |-> Ok(Namespace_map(v, f))])
    /\ UNCHANGED <<termVars, copyVars, got1, got2>>

NsTryMap(n) ==
    /\ CanConsume(n)
    /\ \E f \in TryMapFns :
         LET v == NsSlot(n).out.val IN
         PutNs(n, [op |-> "try_map", f |-> f, from |-> v, out |-> Namespace_try_map(v, f)])
    /\ UNCHANGED <<termVars, copyVars, got1, got2>>

NsDestruct(n) ==
    /\ CanConsume(n)
    /\ LET v == NsSlot(n).out.val IN
       PutNs(n, [op |-> "destruct", from |-> v,
                 out |-> [ok |-> FALSE, inner |-> Namespace_destruct(v)]])
    /\ UNCHANGED <<termVars, copyVars, got1, got2>>

\* got1 is taken first; self is the Namespace as it was when get was called
NsGet(g) ==
    /\ GotSlot(g).op = "none"
    /\ g = "got2" => got1.op = "get"
    /\ cmp.op = "none"
    /\ \E n \in NsSlots, suffix \in Leaf :
         /\ Holds(n)
         /\ PutGot(g, [op |-> "get", of |-> n, self |-> NsSlot(n).out.val,
                       suffix |-> suffix, out |-> Namespace_get(n, suffix)])
    /\ UNCHANGED <<termVars, copyVars, ns1, ns2>>

\* got1 == got2, got2 == got1 and the full IRIs of the two
CompareGot ==
    /\ got1.op = "get" /\ got1.out.ok
    /\ got2.op = "get" /\ got2.out.ok
    /\ cmp.op = "none"
    /\ cmp' = [op |-> "compare",
               eq_xy |-> SimpleIri_eq(got1.out.val, got2.out.val),
               eq_yx |-> SimpleIri_eq(got2.out.val, got1.out.val),
               value_x |-> SimpleIri_value(got1.out.val),
               value_y |-> SimpleIri_value(got2.out.val)]
    /\ UNCHANGED <<x, y, copyVars, nsVars>>

\* One namespace, built and transformed by every method, and two gets on it.
NextNs ==
    \/ NsNew("ns1")
    \/ NsNewUnchecked("ns1")
    \/ NsMap("ns1")
    \/ NsTryMap("ns1")
    \/ NsDestruct("ns1")
    \/ \E g \in GotSlots : NsGet(g)

SpecNs == Init /\ [][NextNs]_vars

\* Two namespaces built by new, a get on each or both on one, and the
\* comparison of the two results.
NextNsPair ==
    \/ \E n \in NsSlots : NsNew(n)
    \/ \E g \in GotSlots : NsGet(g)
    \/ CompareGot

SpecNsPair == Init /\ [][NextNsPair]_vars

\* the full IRI a get call asks for: the prefix of self, then the suffix
FullIri(c) == c.self.iri \o c.suffix

IsPrefixOf(s, t) == Len(s) < Len(t) /\ \A i \in 1..Len(s) : s[i] = t[i]

\* C8: for two successful get calls on valid namespaces of any strategies,
\* the results are equal (in both orders) exactly when the full IRIs
\* prefix+suffix are the same string; a full IRI that is a proper prefix of
\* the other gives unequal terms.
C8_GetEqIffFullIriEq ==
    Compared /\ got1.op = "get" /\ got2.op = "get"
      /\ is_valid_iri_ref(got1.self.iri) /\ is_valid_iri_ref(got2.self.iri) =>
        /\ cmp.eq_xy = (FullIri(got1) = FullIri(got2))
        /\ cmp.eq_yx = (FullIri(got1) = FullIri(got2))
        /\ IsPrefixOf(FullIri(got1), FullIri(got2)) => ~cmp.eq_xy

\* two namespaces of different strategies and the same prefix, "nam" against "name"
C8_Witness ==
    /\ Compared /\ got1.op = "get" /\ got2.op = "get"
    /\ got1.of = "ns1" /\ got2.of = "ns2"
    /\ ns1.op = "new" /\ ns2.op = "new"
    /\ got1.self.strat # got2.self.strat
    /\ got1.self.iri = got2.self.iri /\ got1.self.iri # << >>
    /\ IsPrefixOf(got1.suffix, got2.suffix)
    /\ ~cmp.eq_xy /\ ~cmp.eq_yx

\* C9: get fails exactly when prefix+suffix is not a valid IRI reference
\* (neither part is validated alone); otherwise it returns a split IRI
\* whose namespace part is a reference into the Namespace's own storage and
\* whose suffix part is the given suffix; the Namespace is as it was.
C9_GetValidatesConcatenation ==
    \A g \in GotSlots : LET c == GotSlot(g) IN
      c.op = "get" =>
        /\ c.out.ok = is_valid_iri_ref(FullIri(c))
        /\ ~c.out.ok => DOMAIN c.out = {"ok", "err"}
        /\ c.out.ok =>
             /\ c.out.val.ns = [ref |-> c.of]
             /\ Deref(c.out.val.ns) = c.self.iri
             /\ c.out.val.suffix = Some(c.suffix)
        /\ NsSlot(c.of).out.val = c.self

\* on one valid namespace: a suffix that is no IRI reference alone is
\* accepted, and a suffix with a space is refused
C9_Witness ==
    /\ got1.op = "get" /\ got2.op = "get" /\ got1.of = got2.of
    /\ NsSlot(got1.of).op = "new" /\ got1.self.iri # << >>
    /\ got1.out.ok /\ ~is_valid_iri_ref(got1.suffix)
    /\ ~got2.out.ok /\ got2.suffix[Len(got2.suffix)] = " "

\* a slot holds a Namespace whose prefix is no valid IRI reference
HoldsInvalid(n) == Holds(n) /\ ~is_valid_iri_ref(NsSlot(n).out.val.iri)

\* C10 as claimed: new succeeds exactly on a valid IRI reference, fails with
\* an error of the Invalid prefix kind, and only new_unchecked and map yield
\* a Namespace without the check.
C10_NewFailsWithInvalidPrefix ==
    \A n \in NsSlots : LET c == NsSlot(n) IN
      /\ c.op = "new" =>
           /\ c.out.ok = is_valid_iri_ref(c.iri)
           /\ ~c.out.ok => c.out.err.kind = "InvalidPrefix"
      /\ HoldsInvalid(n) => c.op \in {"new_unchecked", "map"}

\* C10 amended: new succeeds exactly on a valid IRI reference; otherwise it
\* returns an error of the InvalidIri kind carrying the offending string and
\* no Namespace; of the methods of Namespace only new_unchecked, map and
\* try_map yield a Namespace without the check.
C10_NewFailsWithInvalidIri ==
    \A n \in NsSlots : LET c == NsSlot(n) IN
      /\ c.op = "new" =>
           /\ c.out.ok = is_valid_iri_ref(c.iri)
           /\ c.out.ok => c.out = Ok(Namespace(c.T, c.iri))
           /\ ~c.out.ok => c.out = Fail("InvalidIri", c.iri)
      /\ HoldsInvalid(n) => c.op \in {"new_unchecked", "map", "try_map"}

\* a prefix with a space, refused by new
C10_Witness ==
    /\ ns1.op = "new" /\ ~is_valid_iri_ref(ns1.iri)
    /\ \E i \in 1..Len(ns1.iri) : ns1.iri[i] = " "
    /\ ns1.out = Fail("InvalidIri", ns1.iri)

====
